---------------------------- MODULE Spec2Model ----------------------------
(***************************************************************************)
(* Model of the FormSubmit auto-reply bot (class AIFormSubmitEmailBot).    *)
(* The repository holds two variants of the bot with the same orchestrator *)
(* (check_emails), ledger, generator and dispatcher:                       *)
(*   "gpt"  : src/email_gpt_bot.py (extraction from "Field: Value" lines)  *)
(*   "html" : src/email_bot.py     (extraction from an HTML table)         *)
(* src/email_bot.py line 362 reads `recipient_ email`; the model reads it  *)
(* as the name recipient_email that the rest of _send_reply uses.          *)
(*                                                                         *)
(* Text is modelled as a sequence of one-character strings, so that        *)
(* split, strip, lower, substring tests and the regular expressions of the *)
(* source are computed, not assumed.  A markup tag is one element.         *)
(***************************************************************************)
EXTENDS Integers, Sequences, FiniteSets, TLC

(***************************************************************************)
(* Text primitives (Python str methods used by the source).                *)
(***************************************************************************)
None == <<"\\None">>

Truthy(x) == x # None /\ x # <<>>

UpperLetters == <<"A","B","C","D","E","F","G","H","I","J","K","L","M",
                  "N","O","P","Q","R","S","T","U","V","W","X","Y","Z">>

LowerLetters == <<"a","b","c","d","e","f","g","h","i","j","k","l","m",
                  "n","o","p","q","r","s","t","u","v","w","x","y","z">>

Letters == {UpperLetters[i] : i \in 1..26} \cup {LowerLetters[i] : i \in 1..26}

Digits == {"0","1","2","3","4","5","6","7","8","9"}

Whitespace == {" ", "\t", "\n", "\r"}

LowerChar(c) ==
    IF \E i \in 1..26 : UpperLetters[i] = c
    THEN LowerLetters[CHOOSE i \in 1..26 : UpperLetters[i] = c]
    ELSE c

Lower(s) == [i \in 1..Len(s) |-> LowerChar(s[i])]

RECURSIVE LStrip(_)
LStrip(s) == IF s # <<>> /\ Head(s) \in Whitespace THEN LStrip(Tail(s)) ELSE s

RECURSIVE RStrip(_)
RStrip(s) ==
    IF s # <<>> /\ s[Len(s)] \in Whitespace
    THEN RStrip(SubSeq(s, 1, Len(s) - 1))
    ELSE s

Strip(s) == RStrip(LStrip(s))

StartsWithAt(s, i, lit) ==
    /\ i + Len(lit) - 1 <= Len(s)
    /\ SubSeq(s, i, i + Len(lit) - 1) = lit

\* Python `lit in s`
Contains(s, lit) == \E i \in 1..(Len(s) + 1) : StartsWithAt(s, i, lit)

\* Python s.find(lit) + 1: position of the first occurrence, 0 when absent
Find(s, lit) ==
    IF Contains(s, lit)
    THEN CHOOSE i \in 1..(Len(s) + 1) :
            /\ StartsWithAt(s, i, lit)
            /\ \A j \in 1..(i - 1) : ~StartsWithAt(s, j, lit)
    ELSE 0

\* Python s.split(sep): the pieces between the occurrences of the character
RECURSIVE Split(_, _)
Split(s, sep) ==
    LET p == Find(s, <<sep>>)
    IN  IF p = 0 THEN <<s>>
        ELSE <<SubSeq(s, 1, p - 1)>> \o Split(SubSeq(s, p + 1, Len(s)), sep)

\* length of the longest run of characters of class cls starting at position p
RECURSIVE Span(_, _, _)
Span(s, p, cls) ==
    IF p <= Len(s) /\ s[p] \in cls THEN 1 + Span(s, p + 1, cls) ELSE 0

\* length of the longest run of characters other than newline starting at p
RECURSIVE SpanLine(_, _)
SpanLine(s, p) ==
    IF p <= Len(s) /\ s[p] # "\n" THEN 1 + SpanLine(s, p + 1) ELSE 0

(***************************************************************************)
(* Ordered dictionary (Python dict): a sequence of <<key, value>> pairs in *)
(* insertion order; assigning an existing key keeps its position.          *)
(***************************************************************************)
DictHas(d, k) == \E i \in 1..Len(d) : d[i][1] = k

DictGet(d, k) ==
    IF DictHas(d, k) THEN d[CHOOSE i \in 1..Len(d) : d[i][1] = k][2] ELSE None

DictSet(d, k, v) ==
    IF DictHas(d, k)
    THEN [i \in 1..Len(d) |-> IF d[i][1] = k THEN <<k, v>> ELSE d[i]]
    ELSE Append(d, <<k, v>>)

RECURSIVE DictUpdate(_, _)
DictUpdate(d, e) ==
    IF e = <<>> THEN d
    ELSE DictUpdate(DictSet(d, e[1][1], e[1][2]), Tail(e))

(***************************************************************************)
(* Regular expressions of the source, computed with Python's leftmost,     *)
(* greedy, backtracking semantics.                                         *)
(***************************************************************************)
LocalChars == Letters \cup Digits \cup {".", "_", "%", "+", "-"}

DomainChars == Letters \cup Digits \cup {".", "-"}

SepChars == {":"} \cup Whitespace

Max(S) == CHOOSE x \in S : \A y \in S : y <= x

Min(S) == CHOOSE x \in S : \A y \in S : x <= y

\* label sep{minSep,}([^\n]+) tried at position i: the numbers of separator
\* characters after which a character other than newline follows
SepCounts(text, i, label, sep, minSep) ==
    LET p == i + Len(label)
    IN  IF StartsWithAt(text, i, label)
        THEN {k \in minSep..Span(text, p, sep) :
                 p + k <= Len(text) /\ text[p + k] # "\n"}
        ELSE {}

\* re.search(label sep{minSep,}([^\n]+), text): group(1), or None
SearchLabelValue(text, label, sep, minSep) ==
    LET at == {i \in 1..Len(text) : SepCounts(text, i, label, sep, minSep) # {}}
    IN  IF at = {} THEN None
        ELSE LET i == Min(at)
                 q == i + Len(label) + Max(SepCounts(text, i, label, sep, minSep))
             IN  SubSeq(text, q, q + SpanLine(text, q) - 1)

\* [a-zA-Z0-9._%+-]+@[a-zA-Z0-9.-]+\.[a-zA-Z]{2,} tried at position q:
\* the position of the last character matched, 0 when there is no match
AddressEnd(text, q) ==
    LET l  == Span(text, q, LocalChars)
        d0 == q + l + 1
        ps == {p \in (d0 + 1)..(d0 + Span(text, d0, DomainChars) - 1) :
                 text[p] = "." /\ Span(text, p + 1, Letters) >= 2}
    IN  IF l >= 1 /\ q + l <= Len(text) /\ text[q + l] = "@" /\ ps # {}
        THEN Max(ps) + Span(text, Max(ps) + 1, Letters)
        ELSE 0

\* re.search(r'email[:\s]+(<address>)', text): group(1), or None
SearchEmailAddress(text) ==
    LET label == <<"e","m","a","i","l">>
        Start(i) == i + Len(label) + Span(text, i + Len(label), SepChars)
        at == {i \in 1..Len(text) :
                 /\ StartsWithAt(text, i, label)
                 /\ Span(text, i + Len(label), SepChars) >= 1
                 /\ AddressEnd(text, Start(i)) > 0}
    IN  IF at = {} THEN None
        ELSE SubSeq(text, Start(Min(at)), AddressEnd(text, Start(Min(at))))

(***************************************************************************)
(* Extraction, variant "gpt" (src/email_gpt_bot.py).                       *)
(***************************************************************************)
K_email == <<"e","m","a","i","l">>

K_name == <<"n","a","m","e">>

K_message == <<"m","e","s","s","a","g","e">>

K_content == <<"c","o","n","t","e","n","t">>

\* First attempt: every line holding ':' assigns key.strip().lower() the
\* stripped text after the first ':' (a later line overwrites an earlier one)
RECURSIVE ParseLines(_, _)
ParseLines(lines, form_data) ==
    IF lines = <<>> THEN form_data
    ELSE LET line == Head(lines)
             p    == Find(line, <<":">>)
         IN  IF p = 0 THEN ParseLines(Tail(lines), form_data)
             ELSE ParseLines(Tail(lines),
                     DictSet(form_data,
                             Lower(Strip(SubSeq(line, 1, p - 1))),
                             Strip(SubSeq(line, p + 1, Len(line)))))

\* Second attempt for one key: when the key is missing or empty and
\* "<key>:" occurs in content.lower(), take key:\s*([^\n]+) from it
SecondAttempt(form_data, content, key) ==
    LET low   == Lower(content)
        label == key \o <<":">>
        match == SearchLabelValue(low, label, Whitespace, 0)
    IN  IF ~Truthy(DictGet(form_data, key)) /\ Contains(low, label) /\ match # None
        THEN DictSet(form_data, key, Strip(match))
        ELSE form_data

parse_formsubmit_content(content) ==
    LET first == ParseLines(Split(content, "\n"), <<>>)
        e     == SecondAttempt(first, content, K_email)
        n     == SecondAttempt(e, content, K_name)
    IN  SecondAttempt(n, content, K_message)

\* the walk over the parts of a message: text parts update form_data in turn
RECURSIVE WalkParts(_, _)
WalkParts(parts, form_data) ==
    IF parts = <<>> THEN form_data
    ELSE IF Head(parts).ctype \in {"text/plain", "text/html"}
         THEN WalkParts(Tail(parts),
                 DictUpdate(form_data, parse_formsubmit_content(Head(parts).text)))
         ELSE WalkParts(Tail(parts), form_data)

HeaderGet(value, default) == IF value = None THEN default ELSE value

\* the address taken from the From header when the form holds no email
FromHeaderAddress(from_header) ==
    IF Contains(from_header, <<"<">>) /\ Contains(from_header, <<">">>)
    THEN Split(Split(from_header, "<")[2], ">")[1]
    ELSE from_header

Or(a, b) == IF Truthy(a) THEN a ELSE b

\* form_data as the walk over the parts (or the single payload) leaves it
FormDataOf(msg) ==
    IF msg.multipart
    THEN WalkParts(msg.parts, <<>>)
    ELSE DictUpdate(<<>>, parse_formsubmit_content(msg.parts[1].text))

\* msg.get("From", "") is an email.header.Header object, not a str, when the
\* header holds raw bytes outside ASCII
HeaderObject == <<"\\Header">>

\* the test `"<" in from_header` raises TypeError on a Header object; no
\* try block encloses it
extract_sender_info_raises(msg) ==
    /\ ~Truthy(DictGet(FormDataOf(msg), K_email))
    /\ HeaderGet(msg.from, <<>>) = HeaderObject

extract_sender_info(msg) ==
    LET form_data == FormDataOf(msg)
        email     == DictGet(form_data, K_email)
    IN  [sender_email    |-> IF Truthy(email) THEN email
                             ELSE FromHeaderAddress(HeaderGet(msg.from, <<>>)),
         sender_name     |-> DictGet(form_data, K_name),
         message_content |-> Or(DictGet(form_data, K_message),
                                Or(DictGet(form_data, K_content), <<>>)),
         form_data       |-> form_data]

(***************************************************************************)
(* Extraction, variant "html" (src/email_bot.py).  A body text carries the *)
(* table rows BeautifulSoup finds in it ("rows": each row the texts of its *)
(* td cells); the parser itself is a library outside the repository.       *)
(***************************************************************************)
EmptyContent == [text |-> <<>>, rows |-> <<>>]

ContentOf(part) == [text |-> part.text, rows |-> part.rows]

\* the loop over msg.walk(): the last text/html part is html_content, the
\* last text/plain part seen before any html part is email_content
RECURSIVE SelectParts(_, _, _)
SelectParts(parts, html_content, email_content) ==
    IF parts = <<>>
    THEN IF Truthy(html_content.text) THEN html_content ELSE email_content
    ELSE LET part == Head(parts)
         IN  IF part.attachment
             THEN SelectParts(Tail(parts), html_content, email_content)
             ELSE IF part.ctype = "text/html"
             THEN SelectParts(Tail(parts), ContentOf(part), email_content)
             ELSE IF part.ctype = "text/plain" /\ ~Truthy(html_content.text)
             THEN SelectParts(Tail(parts), html_content, ContentOf(part))
             ELSE SelectParts(Tail(parts), html_content, email_content)

content_to_parse(msg) ==
    IF msg.multipart
    THEN SelectParts(msg.parts, EmptyContent, EmptyContent)
    ELSE ContentOf(msg.parts[1])

\* no table row: the three text patterns, on the text as it is (no lower())
TextPatterns(text) ==
    LET email   == SearchEmailAddress(text)
        name    == SearchLabelValue(text, K_name, SepChars, 1)
        message == SearchLabelValue(text, K_message, SepChars, 1)
        d1 == IF email # None THEN DictSet(<<>>, K_email, Strip(email)) ELSE <<>>
        d2 == IF name # None THEN DictSet(d1, K_name, Strip(name)) ELSE d1
        d3 == IF message # None THEN DictSet(d2, K_message, Strip(message)) ELSE d2
    IN  [sender_email    |-> IF email # None THEN Strip(email) ELSE None,
         sender_name     |-> IF name # None THEN Strip(name) ELSE None,
         message_content |-> IF message # None THEN Strip(message) ELSE None,
         form_data       |-> d3]

NameFields == {K_name, <<"f","u","l","l","n","a","m","e">>,
               <<"f","u","l","l"," ","n","a","m","e">>}

MessageFields == {K_message, K_content, <<"c","o","m","m","e","n","t">>}

\* the loop over the table rows: r holds form_data and the three fields
RECURSIVE TableRows(_, _)
TableRows(rows, r) ==
    IF rows = <<>> THEN r
    ELSE LET cells == Head(rows)
             field_name  == Lower(Strip(cells[1]))
             field_value == Strip(cells[2])
             stored == [r EXCEPT !.form_data = DictSet(@, field_name, field_value)]
         IN  IF Len(cells) < 2 THEN TableRows(Tail(rows), r)
             ELSE IF field_name = K_email
             THEN TableRows(Tail(rows), [stored EXCEPT !.sender_email = field_value])
             ELSE IF field_name \in NameFields
             THEN TableRows(Tail(rows), [stored EXCEPT !.sender_name = field_value])
             ELSE IF field_name \in MessageFields
             THEN TableRows(Tail(rows), [stored EXCEPT !.message_content = field_value])
             ELSE TableRows(Tail(rows), stored)

\* the first of the first five values holding '@' and '.', when no email
\* row was found and the form has three fields or more
ByPosition(form_data) ==
    LET looks == {i \in 1..Len(form_data) :
                    /\ i <= 5
                    /\ Contains(form_data[i][2], <<"@">>)
                    /\ Contains(form_data[i][2], <<".">>)}
    IN  IF Len(form_data) >= 3 /\ looks # {} THEN form_data[Min(looks)][2] ELSE None

RECURSIVE JoinFields(_)
JoinFields(form_data) ==
    IF form_data = <<>> THEN <<>>
    ELSE form_data[1][1] \o <<":", " ">> \o form_data[1][2]
         \o (IF Len(form_data) > 1 THEN <<",", " ">> ELSE <<>>)
         \o JoinFields(Tail(form_data))

extract_form_data_from_html(content) ==
    IF content.rows = <<>> THEN TextPatterns(content.text)
    ELSE LET r == TableRows(content.rows,
                     [sender_email |-> None, sender_name |-> None,
                      message_content |-> None, form_data |-> <<>>])
             e == IF Truthy(r.sender_email) THEN r.sender_email
                  ELSE IF ByPosition(r.form_data) # None THEN ByPosition(r.form_data)
                  ELSE r.sender_email
             m == IF Truthy(r.message_content) THEN r.message_content
                  ELSE <<"Form submission with fields: ">> \o JoinFields(r.form_data)
         IN  [r EXCEPT !.sender_email = e, !.message_content = m]

(***************************************************************************)
(* Configuration and the mailbox the bot is run against.                   *)
(***************************************************************************)
\* config['formsubmit_identifier'], config['company_info'][...]
formsubmit_identifier == <<"f","s">>

company_name == <<"A","c","m","e">>

team_name == <<"S","u","p","p","o","r","t">>

RelayFrom == <<"f","s"," ","<","n","@","f","s",".","c","o",">">>

TextPart(text) ==
    [ctype |-> "text/plain", attachment |-> FALSE, text |-> text, rows |-> <<>>]

HtmlPart(text, rows) ==
    [ctype |-> "text/html", attachment |-> FALSE, text |-> text, rows |-> rows]

ContainerPart ==
    [ctype |-> "multipart/alternative", attachment |-> FALSE,
     text |-> None, rows |-> <<>>]

\* The messages of the inbox, by message number.  message_id and from are
\* None when the header is missing.
\*  1: colon lines, lower-case email label
\*  2: no Message-ID; multipart, a plain part and an HTML table
\*  3: no Message-ID; prose without any field
\*  4: prose again, and a From header with an empty address
\*  5: not from the relay (the search never returns it)
Mailbox ==
    <<[message_id |-> <<"1">>, from |-> RelayFrom, multipart |-> FALSE,
       parts |-> <<TextPart(<<"N","a","m","e",":"," ","J","o","\n",
                              "e","m","a","i","l",":"," ","j","@","x",".","c","o","\n",
                              "M","e","s","s","a","g","e",":"," ","h","i">>)>>],
      [message_id |-> None, from |-> RelayFrom, multipart |-> TRUE,
       parts |-> <<ContainerPart,
                   TextPart(<<"E","m","a","i","l",":"," ","p","@","z",".","c","o">>),
                   HtmlPart(<<"<tr>","<td>","E","m","a","i","l","</td>","<td>",
                              "b","@","y",".","c","o","</td>","</tr>",
                              "<tr>","<td>","N","a","m","e","</td>","<td>",
                              "B","o","</td>","</tr>">>,
                            << <<<<"E","m","a","i","l">>, <<"b","@","y",".","c","o">>>>,
                               <<<<"N","a","m","e">>, <<"B","o">>>> >>)>>],
      [message_id |-> None, from |-> RelayFrom, multipart |-> FALSE,
       parts |-> <<TextPart(<<"c","a","l","l"," ","m","e">>)>>],
      [message_id |-> <<"2">>, from |-> <<"f","s"," ","<",">">>, multipart |-> FALSE,
       parts |-> <<TextPart(<<"h","e","l","l","o">>)>>],
      [message_id |-> <<"3">>, from |-> <<"a","@","b",".","c","o">>, multipart |-> FALSE,
       parts |-> <<TextPart(<<"e","m","a","i","l",":"," ","a","@","b",".","c","o">>)>>]>>

MsgNums == 1..Len(Mailbox)

\* mutant of the default: a message without the header gets an identifier
\* of its own
MessageIdOfDistinct(num) ==
    IF Mailbox[num].message_id = None THEN <<"no id", ToString(num)>>
    ELSE Mailbox[num].message_id

MessageIdOf(num) == HeaderGet(Mailbox[num].message_id, <<>>)

MessageIds == {MessageIdOf(num) : num \in MsgNums}

Variants == {"gpt", "html"}

\* what the extraction step of check_emails yields for a message
ExtractedFrom(v, msg) ==
    IF v = "gpt" THEN extract_sender_info(msg)
    ELSE extract_form_data_from_html(content_to_parse(msg))

\* whether the step raises into check_emails: _extract_form_data_from_html
\* catches its own exceptions, _extract_sender_info does not
ExtractionRaises(v, msg) == v = "gpt" /\ extract_sender_info_raises(msg)

Extracted(v, num) == ExtractedFrom(v, Mailbox[num])

ExtractedTable == [v \in Variants |-> [num \in MsgNums |-> Extracted(v, num)]]

(***************************************************************************)
(* Response generation (_generate_ai_response, _get_default_response).     *)
(***************************************************************************)
max_retries == 3

\* mutant of the backoff: the same delay before every retry
WaitTimeConstant(k) == 5

\* wait_time = (attempt + 1) * 5
WaitTime(k) == (k + 1) * 5

\* mutant of the except clauses: every failure is retried
IsRetryableAny(failure) == TRUE

\* the failure classes of the first except clause
IsRetryable(failure) == failure \in {"RateLimitError", "APIConnectionError"}

ServiceFailures == {"RateLimitError", "APIConnectionError", "OtherError"}

\* texts the service can return in response.choices[0].message.content
ServiceTexts == {<<"O","k">>, <<" ","\n">>}

get_default_response(name) ==
    <<"Dear ">> \o (IF Truthy(name) THEN name ELSE <<"there">>)
    \o <<",\n\nThank you for contacting ">> \o company_name
    \o <<" on ", "%Y-%m-%d", ". We have received your inquiry ...\n\nBest regards,\nThe ">>
    \o team_name \o <<"\n">> \o company_name \o <<"\n">>

(***************************************************************************)
(* The processed ledger (_load_processed_ids, _save_processed_ids).        *)
(* The file is absent, holds a JSON array, or is corrupt (a write that     *)
(* failed after open(..., 'w') truncated it).                              *)
(***************************************************************************)
AbsentFile == [state |-> "absent", ids |-> <<>>]

CorruptFile == [state |-> "corrupt", ids |-> <<>>]

GoodFile(ids) == [state |-> "ok", ids |-> ids]

\* mutant of the loader: no except clause, a failed read leaves no ledger
load_processed_ids_unguarded(file, raises) ==
    IF file.state = "absent" THEN <<>>
    ELSE IF raises \/ file.state = "corrupt" THEN None
    ELSE file.ids

\* json.load of the file; [] when it is absent, [] when open or json.load
\* raises (raises: the read of a well-formed file fails)
load_processed_ids(file, raises) ==
    IF file.state = "absent" THEN <<>>
    ELSE IF raises \/ file.state = "corrupt" THEN <<>>
    ELSE file.ids

\* mutants of the membership test: never found; only the last entry is looked at
InLedgerNever(id, ids) == FALSE

InLedgerLastOnly(id, ids) == ids # <<>> /\ ids[Len(ids)] = id

\* message_id in self.processed_ids
InLedger(id, ids) == \E i \in 1..Len(ids) : ids[i] = id

\* mutant of the sender test: a reply is attempted whatever was extracted
HasSenderAlways(r) == TRUE

\* if sender_email:
HasSender(r) == Truthy(r.sender_email)

(***************************************************************************)
(* State.                                                                  *)
(***************************************************************************)
VARIABLES
    variant,         \* which of the two source files runs
    processed_ids,   \* self.processed_ids, the ledger in memory
    ledger_file,     \* processed_emails.json
    seen,            \* message numbers flagged \Seen in the mailbox
    pc,              \* position inside check_emails ("idle": not running)
    conn,            \* the IMAP connection: "none", "open", "closed"
    message_nums,    \* the search result of the current run
    idx,             \* position of the for loop in message_nums
    message_id,      \* locals of the loop body
    info,            \* sender_email, sender_name, message_content, form_data
    ai_response,
    attempt,         \* loop variable of the retry loop
    calls,           \* results of the service calls of this generation
    sleeps,          \* the time.sleep arguments of this generation
    runs,            \* check_emails invocations finished so far
    last_run,        \* how the last invocation ended
    ops,             \* history: the message handled last in this run (num)
                     \* and what check_emails did for it (did)
    sent,            \* history: _send_reply calls per message identifier
    faults,          \* history: "kill", "write", "read" faults so far
    report,          \* what __main__ of this process has logged about its run
    sample           \* a message given to the extraction step alone, and
                     \* what the step made of it

vars == <<variant, processed_ids, ledger_file, seen, pc, conn, message_nums, idx,
          message_id, info, ai_response, attempt, calls, sleeps, runs, last_run,
          ops, sent, faults, report, sample>>

MaxRuns == 2

NoInfo == [sender_email |-> None, sender_name |-> None,
           message_content |-> None, form_data |-> <<>>]

NoOps == [num |-> 0, did |-> {}]

NoSample == [lines |-> <<>>, from |-> None, raised |-> FALSE, result |-> NoInfo]

locals == <<message_id, info, ai_response, attempt, calls, sleeps>>

ResetLocals ==
    /\ message_id' = None
    /\ info' = NoInfo
    /\ ai_response' = None
    /\ attempt' = 0
    /\ calls' = <<>>
    /\ sleeps' = <<>>

\* Messages for the extraction step alone: single-part plain-text bodies
\* of up to MaxLines lines taken from SampleLines (three `Label: value`
\* lines, one line of prose holding an address and a second Email line),
\* under a From header of the relay or one that is a Header object.
MaxLines == 3

SampleLines ==
    <<[label |-> <<"N","a","m","e">>,
       value |-> <<"J","a","n","e"," ","D","o","e">>],
      [label |-> <<"E","m","a","i","l">>,
       value |-> <<"j","a","n","e","@","e","x","a","m","p","l","e",".","c",
                 "o","m">>],
      [label |-> <<"M","e","s","s","a","g","e">>,
       value |-> <<"I"," ","n","e","e","d"," ","a"," ","q","u","o","t","e">>],
      [label |-> None,
       value |-> <<"P","l","e","a","s","e"," ","c","a","l","l"," ","m","e",
                 " ","b","a","c","k",","," ","t","h","a","n","k","s"," ","-",
                 " ","B","o","b",","," ","b","o","b","@","s","i","t","e",".",
                 "c","o","m">>],
      [label |-> <<"E","m","a","i","l">>,
       value |-> <<"j","@","x",".","c","o">>]>>

LineText(line) ==
    IF line.label = None THEN line.value
    ELSE line.label \o <<":", " ">> \o line.value

RECURSIVE BodyOf(_)
BodyOf(ls) ==
    IF ls = <<>> THEN <<>>
    ELSE LineText(SampleLines[Head(ls)])
         \o (IF Len(ls) > 1 THEN <<"\n">> ELSE <<>>) \o BodyOf(Tail(ls))

SampleFroms == {RelayFrom, HeaderObject}

SampleMessage(ls, from) ==
    [message_id |-> <<"9">>, from |-> from, multipart |-> FALSE,
     parts |-> <<TextPart(BodyOf(ls))>>]

SampleBodies ==
    UNION {[1..n -> 1..Len(SampleLines)] : n \in 1..MaxLines}

\* a ledger file left by an earlier life of the bot, or none
InitialFiles == {AbsentFile, GoodFile(<<<<"1">>>>)}

Init ==
    /\ variant \in Variants
    /\ ledger_file \in InitialFiles
    /\ processed_ids = load_processed_ids(ledger_file, FALSE)
    /\ seen = {}
    /\ pc = "idle"
    /\ conn = "none"
    /\ message_nums = <<>>
    /\ idx = 0
    /\ message_id = None
    /\ info = NoInfo
    /\ ai_response = None
    /\ attempt = 0
    /\ calls = <<>>
    /\ sleeps = <<>>
    /\ runs = 0
    /\ last_run = "none"
    /\ ops = NoOps
    /\ sent = [id \in MessageIds |-> 0]
    /\ faults = {}
    /\ report = "none"
    /\ sample = NoSample

(***************************************************************************)
(* check_emails, one action per step and outcome of it.                    *)
(***************************************************************************)
\* mail.search(None, '(FROM "<identifier>" UNSEEN)'): the unseen messages
\* whose From header holds the identifier, in ascending message number
RECURSIVE SearchFrom(_, _)
SearchFrom(num, flagged) ==
    IF num > Len(Mailbox) THEN <<>>
    ELSE (IF /\ num \notin flagged
             /\ Contains(HeaderGet(Mailbox[num].from, <<>>), formsubmit_identifier)
          THEN <<num>> ELSE <<>>) \o SearchFrom(num + 1, flagged)

SearchResult(flagged) == SearchFrom(1, flagged)

\* mutant of the loop: the search result is walked from its end
NumReversed == message_nums[Len(message_nums) + 1 - idx]

Num == message_nums[idx]

Did(what) == ops' = [ops EXCEPT !.did = @ \cup what]

\* __main__: check_emails came back, so the try block logs the completion;
\* a killed process logs nothing.  check_emails catches every exception
\* itself, so the except clause of __main__ is never entered from it.
main_report(result) ==
    IF result = "killed" THEN "none" ELSE "completed successfully"

\* check_emails returns (or its except clause has logged the error)
Return(result) ==
    /\ pc' = "idle"
    /\ runs' = runs + 1
    /\ last_run' = result
    /\ report' = main_report(result)
    /\ message_nums' = <<>>
    /\ idx' = 0
    /\ ResetLocals

\* the for loop goes to its next message, or ends
Advance ==
    /\ IF idx < Len(message_nums)
       THEN idx' = idx + 1 /\ pc' = "fetch"
       ELSE idx' = idx /\ pc' = "close"
    /\ UNCHANGED <<message_nums, runs, last_run, report>>

ConnectOk ==
    /\ pc = "idle" /\ runs < MaxRuns
    /\ pc' = "search"
    /\ conn' = "open"
    /\ ops' = NoOps
    /\ UNCHANGED <<variant, sample, processed_ids, ledger_file, seen, message_nums, idx,
                   locals, runs, last_run, report, sent, faults>>

\* IMAP4_SSL, login or select raises
ConnectFails ==
    /\ pc = "idle" /\ runs < MaxRuns
    /\ Return("connect error")
    /\ conn' = "none"
    /\ ops' = NoOps
    /\ UNCHANGED <<variant, sample, processed_ids, ledger_file, seen, sent, faults>>

SearchOk ==
    /\ pc = "search"
    /\ IF SearchResult(seen) = <<>>
       THEN Return("returned")
       ELSE /\ message_nums' = SearchResult(seen)
            /\ idx' = 1
            /\ pc' = "fetch"
            /\ UNCHANGED <<locals, runs, last_run, report>>
    /\ UNCHANGED <<variant, sample, processed_ids, ledger_file, seen, conn, ops, sent, faults>>

SearchNotOk ==
    /\ pc = "search"
    /\ Return("returned")
    /\ UNCHANGED <<variant, sample, processed_ids, ledger_file, seen, conn, ops, sent, faults>>

SearchRaises ==
    /\ pc = "search"
    /\ Return("error")
    /\ UNCHANGED <<variant, sample, processed_ids, ledger_file, seen, conn, ops, sent, faults>>

\* history: whether the identifier of a fetched message is in the ledger
Known(num) ==
    IF MessageIdOf(num) \in {processed_ids[i] : i \in 1..Len(processed_ids)}
    THEN {"known"} ELSE {}

\* fetch, message_from_bytes and the test of the ledger
FetchOk ==
    /\ pc = "fetch"
    /\ IF InLedger(MessageIdOf(Num), processed_ids)
       THEN /\ ops' = [num |-> Num, did |-> {"fetched", "skipped"} \cup Known(Num)]
            /\ Advance
            /\ UNCHANGED locals
       ELSE /\ ops' = [num |-> Num, did |-> {"fetched"} \cup Known(Num)]
            /\ message_id' = MessageIdOf(Num)
            /\ pc' = "extract"
            /\ UNCHANGED <<message_nums, idx, info, ai_response, attempt, calls,
                           sleeps, runs, last_run, report>>
    /\ UNCHANGED <<variant, sample, processed_ids, ledger_file, seen, conn, sent, faults>>

FetchNotOk ==
    /\ pc = "fetch"
    /\ Advance
    /\ ops' = [num |-> Num, did |-> {}]
    /\ UNCHANGED <<variant, sample, processed_ids, ledger_file, seen, conn, locals, sent,
                   faults>>

FetchRaises ==
    /\ pc = "fetch"
    /\ Return("error")
    /\ UNCHANGED <<variant, sample, processed_ids, ledger_file, seen, conn, ops, sent, faults>>

\* the extraction step and the test `if sender_email:`
Extract ==
    /\ pc = "extract"
    /\ Did({"extract"})
    /\ IF ExtractionRaises(variant, Mailbox[Num])
       THEN Return("error")
       ELSE IF HasSender(ExtractedTable[variant][Num])
       THEN /\ info' = ExtractedTable[variant][Num]
            /\ pc' = "generate"
            /\ UNCHANGED <<message_nums, idx, message_id, ai_response, attempt,
                           calls, sleeps, runs, last_run, report>>
       ELSE /\ Advance
            /\ ResetLocals
    /\ UNCHANGED <<variant, sample, processed_ids, ledger_file, seen, conn, sent, faults>>

\* openai.ChatCompletion.create returns a text
ServiceReturns ==
    /\ pc = "generate" /\ attempt < max_retries
    /\ \E text \in ServiceTexts :
          /\ ai_response' = Strip(text)
          /\ calls' = Append(calls, "text")
    /\ pc' = "send"
    /\ Did({"generate"})
    /\ UNCHANGED <<variant, sample, processed_ids, ledger_file, seen, conn, message_nums,
                   idx, message_id, info, attempt, sleeps, runs, last_run, report, sent,
                   faults>>

\* the call (or reading its response) raises
ServiceRaises ==
    /\ pc = "generate" /\ attempt < max_retries
    /\ \E failure \in ServiceFailures :
          /\ calls' = Append(calls, failure)
          /\ IF IsRetryable(failure) /\ attempt < max_retries - 1
             THEN /\ sleeps' = Append(sleeps, WaitTime(attempt))
                  /\ attempt' = attempt + 1
                  /\ pc' = "generate"
                  /\ UNCHANGED ai_response
             ELSE /\ ai_response' = get_default_response(info.sender_name)
                  /\ pc' = "send"
                  /\ UNCHANGED <<sleeps, attempt>>
    /\ Did({"generate"})
    /\ UNCHANGED <<variant, sample, processed_ids, ledger_file, seen, conn, message_nums,
                   idx, message_id, info, runs, last_run, report, sent, faults>>

\* mutant of _send_reply: no except clause, the SMTP failure reaches
\* check_emails
send_reply_raises_unguarded == TRUE

\* whether a failure of the SMTP dialogue leaves _send_reply: its except
\* clause logs "Failed to send email" and the function returns
send_reply_raises == FALSE

\* _send_reply: the SMTP dialogue succeeds, or raises and is logged
SendOk ==
    /\ pc = "send"
    /\ sent' = [sent EXCEPT ![message_id] = @ + 1]
    /\ Did({"dispatch", "acked"})
    /\ pc' = "record"
    /\ ai_response' = None /\ attempt' = 0 /\ calls' = <<>> /\ sleeps' = <<>>
    /\ UNCHANGED <<variant, sample, processed_ids, ledger_file, seen, conn, message_nums,
                   idx, message_id, info, runs, last_run, report, faults>>

SendFails ==
    /\ pc = "send"
    /\ sent' = [sent EXCEPT ![message_id] = @ + 1]
    /\ Did({"dispatch", "failed"})
    /\ IF send_reply_raises
       THEN Return("error")
       ELSE /\ pc' = "record"
            /\ ai_response' = None /\ attempt' = 0 /\ calls' = <<>> /\ sleeps' = <<>>
            /\ UNCHANGED <<message_nums, idx, message_id, info, runs, last_run,
                           report>>
    /\ UNCHANGED <<variant, sample, processed_ids, ledger_file, seen, conn, faults>>

\* mutant of the record: the identifier is not appended
ledger_append_skipped(ids, id) == ids

\* self.processed_ids.append(message_id)
ledger_append(ids, id) == Append(ids, id)

\* mutant of the write: only the identifier just recorded is written
save_last_id_only(ids) == GoodFile(<<ids[Len(ids)]>>)

\* the file after json.dump(self.processed_ids, f): the whole list
save_processed_ids(ids) == GoodFile(ids)

\* mutant of _save_processed_ids: no except clause, the failed write reaches
\* check_emails
save_processed_ids_raises_unguarded == TRUE

\* whether a failed write leaves _save_processed_ids: its except clause
\* logs "Error saving processed email IDs" and the function returns
save_processed_ids_raises == FALSE

\* processed_ids.append(message_id); _save_processed_ids()
RecordSaved ==
    /\ pc = "record"
    /\ processed_ids' = ledger_append(processed_ids, message_id)
    /\ ledger_file' = save_processed_ids(processed_ids')
    /\ Did({"record"})
    /\ pc' = "store"
    /\ UNCHANGED <<variant, sample, seen, conn, message_nums, idx, locals, runs,
                   last_run, report, sent, faults>>

\* the write raises: the file keeps its content (open failed) or is left
\* truncated (json.dump failed)
RecordSaveFails ==
    /\ pc = "record"
    /\ processed_ids' = ledger_append(processed_ids, message_id)
    /\ ledger_file' \in {ledger_file, CorruptFile}
    /\ faults' = faults \cup {"write"}
    /\ Did({"record", "write failed"})
    /\ IF save_processed_ids_raises
       THEN Return("error")
       ELSE /\ pc' = "store"
            /\ UNCHANGED <<message_nums, idx, locals, runs, last_run, report>>
    /\ UNCHANGED <<variant, sample, seen, conn, sent>>

\* mail.store(num, '+FLAGS', '\Seen')
StoreOk ==
    /\ pc = "store"
    /\ seen' = seen \cup {Num}
    /\ Did({"seen"})
    /\ Advance
    /\ ResetLocals
    /\ UNCHANGED <<variant, sample, processed_ids, ledger_file, conn, sent, faults>>

\* the server answers NO: nothing is raised and no flag is set
StoreNo ==
    /\ pc = "store"
    /\ Did({"store no"})
    /\ Advance
    /\ ResetLocals
    /\ UNCHANGED <<variant, sample, processed_ids, ledger_file, seen, conn, sent, faults>>

StoreRaises ==
    /\ pc = "store"
    /\ Did({"store raised"})
    /\ Return("error")
    /\ UNCHANGED <<variant, sample, processed_ids, ledger_file, seen, conn, sent, faults>>

\* mail.close(); mail.logout()
CloseOk ==
    /\ pc = "close"
    /\ conn' = "closed"
    /\ Return("returned")
    /\ UNCHANGED <<variant, sample, processed_ids, ledger_file, seen, ops, sent, faults>>

CloseRaises ==
    /\ pc = "close"
    /\ Return("error")
    /\ UNCHANGED <<variant, sample, processed_ids, ledger_file, seen, conn, ops, sent, faults>>

\* a new process: __init__ loads the ledger from the file
Restart ==
    /\ pc = "idle" /\ runs < MaxRuns
    /\ ledger_file.state # "corrupt"
    /\ processed_ids' = load_processed_ids(ledger_file, FALSE)
    /\ conn' = "none"
    /\ report' = "none"
    /\ UNCHANGED <<variant, sample, ledger_file, seen, pc, message_nums, idx, locals,
                   runs, last_run, ops, sent, faults>>

\* a new process whose json.load raises: the ledger starts empty
RestartReadFails ==
    /\ pc = "idle" /\ runs < MaxRuns
    /\ ledger_file.state # "absent"
    /\ processed_ids' = load_processed_ids(ledger_file, TRUE)
    /\ conn' = "none"
    /\ report' = "none"
    /\ faults' = faults \cup {"read"}
    /\ UNCHANGED <<variant, sample, ledger_file, seen, pc, message_nums, idx, locals,
                   runs, last_run, ops, sent>>

\* the process is killed inside check_emails; the next process starts
Kill ==
    /\ pc # "idle"
    /\ Return("killed")
    /\ processed_ids' = load_processed_ids(ledger_file, FALSE)
    /\ conn' = "none"
    /\ faults' = faults \cup {"kill"}
                 \cup (IF ledger_file.state = "corrupt" THEN {"read"} ELSE {})
    /\ UNCHANGED <<variant, sample, ledger_file, seen, ops, sent>>

Next ==
    \/ ConnectOk \/ ConnectFails
    \/ SearchOk \/ SearchNotOk \/ SearchRaises
    \/ FetchOk \/ FetchNotOk \/ FetchRaises
    \/ Extract
    \/ ServiceReturns \/ ServiceRaises
    \/ SendOk \/ SendFails
    \/ RecordSaved \/ RecordSaveFails
    \/ StoreOk \/ StoreNo \/ StoreRaises
    \/ CloseOk \/ CloseRaises
    \/ Restart \/ RestartReadFails
    \/ Kill

Spec == Init /\ [][Next]_vars

(***************************************************************************)
(* The extraction step on its own: a process takes one sample message and  *)
(* runs the extraction of its variant on it.                               *)
(***************************************************************************)
ExtractSample ==
    /\ sample = NoSample
    /\ \E ls \in SampleBodies, from \in SampleFroms :
          LET msg    == SampleMessage(ls, from)
              raised == ExtractionRaises(variant, msg)
          IN  sample' = [lines  |-> ls,
                         from   |-> from,
                         raised |-> raised,
                         result |-> IF raised THEN NoInfo
                                    ELSE ExtractedFrom(variant, msg)]
    /\ UNCHANGED <<variant, processed_ids, ledger_file, seen, pc, conn, message_nums,
                   idx, locals, runs, last_run, ops, sent, faults, report>>

NextExtraction == ExtractSample

SpecExtraction == Init /\ [][NextExtraction]_vars

(***************************************************************************)
(* Properties.                                                             *)
(***************************************************************************)
Range(q) == {q[i] : i \in 1..Len(q)}

NoDuplicates(q) == \A i, j \in 1..Len(q) : q[i] = q[j] => i = j

\* C1: a message is recorded in the ledger and marked \Seen only after its
\* reply was dispatched successfully: whenever check_emails has recorded or
\* flagged the message it handled last, the dispatch of its reply succeeded.
C1_RecordOnlyAfterAck ==
    ({"record", "seen"} \cap ops.did # {}) => "acked" \in ops.did

\* C2: a failed dispatch leaves the message unread and unrecorded: once the
\* dispatch for a message has failed, the message is not flagged \Seen and
\* its identifier is not in the ledger (so the next run fetches and retries).
C2_FailedDispatchLeftForRetry ==
    "failed" \in ops.did =>
        /\ ops.num \notin seen
        /\ MessageIdOf(ops.num) \notin Range(processed_ids)

\* C3: as long as the process was never killed inside a run and no ledger
\* read or write has failed, no message identifier has had more than one
\* reply dispatched for it, over all runs.
C3_AtMostOneReply ==
    faults = {} => \A id \in MessageIds : sent[id] <= 1

\* C3 witness: a second run skips a message whose reply was dispatched once
C3_Witness ==
    /\ faults = {}
    /\ runs >= 1
    /\ "skipped" \in ops.did
    /\ sent[MessageIdOf(ops.num)] = 1

\* C4: for a fetched message whose identifier is already in the ledger,
\* check_emails does no extraction, no generation and no dispatch.
C4_KnownMessageUntouched ==
    "known" \in ops.did =>
        ops.did \cap {"extract", "generate", "dispatch"} = {}

\* C4 witness: such a message was fetched and the loop went on
C4_Witness == ops.did = {"fetched", "known", "skipped"} /\ pc \in {"fetch", "close"}

\* C5: sender resolution never yields an address that holds the relay
\* identifier as a substring.
C5_NeverRelayAddress ==
    Truthy(info.sender_email) =>
        ~Contains(info.sender_email, formsubmit_identifier)

\* C6: a message for which no sender address is resolved is skipped with no
\* generation and no dispatch, is not recorded and not flagged \Seen, so the
\* next search returns it again.
C6_NoSenderSkipped ==
    /\ ("extract" \in ops.did /\ ~Truthy(ExtractedTable[variant][ops.num].sender_email))
          => /\ ops.did = {"fetched", "extract"}
             /\ pc \in {"fetch", "close", "idle"}
    /\ \A num \in MsgNums :
          (/\ ~Truthy(ExtractedTable[variant][num].sender_email)
           /\ Contains(HeaderGet(Mailbox[num].from, <<>>), formsubmit_identifier))
          => num \notin seen /\ num \in Range(SearchResult(seen))

\* C6 witness: in a later run the message with no sender is extracted again
C6_Witness ==
    /\ runs >= 1
    /\ ops.did = {"fetched", "extract"}
    /\ ~Truthy(ExtractedTable[variant][ops.num].sender_email)
    /\ pc = "close"

\* C7: when every call of the service raises a rate-limit or connection
\* failure, the service is called max_retries (3) times, the sleeps are 5
\* then 10 with none after the last attempt, and the fallback template is
\* returned.
C7_RetryExhaustion ==
    /\ pc = "generate" =>
          /\ Len(calls) < 3
          /\ sleeps = [i \in 1..Len(calls) |-> 5 * i]
    /\ (/\ pc = "send"
        /\ \A i \in 1..Len(calls) :
              calls[i] \in {"RateLimitError", "APIConnectionError"})
          => /\ Len(calls) = 3
             /\ sleeps = <<5, 10>>
             /\ ai_response = get_default_response(info.sender_name)

\* C7 witness: three retryable failures in a row, generation has returned
C7_Witness ==
    /\ pc = "send"
    /\ calls = <<"RateLimitError", "APIConnectionError", "RateLimitError">>

\* C8: a failure that is neither rate-limit nor connection ends generation
\* at once, on whichever attempt: it is the last call, no sleep follows it
\* and the fallback template is returned.
C8_ImmediateFallback ==
    \A i \in 1..Len(calls) :
        calls[i] = "OtherError" =>
            /\ i = Len(calls)
            /\ pc = "send"
            /\ Len(sleeps) = i - 1
            /\ ai_response = get_default_response(info.sender_name)

\* C8 witness: the failure comes on the second attempt
C8_Witness == pc = "send" /\ calls = <<"RateLimitError", "OtherError">>

\* C9: whatever the service does, generation returns a non-empty reply.
C9_ReplyNeverEmpty == pc = "send" => Truthy(ai_response)

C11_BatchNeverAborted ==
    (pc = "idle" /\ last_run = "error" /\ ops.num # 0) =>
        \A num \in Range(SearchResult(seen)) : num <= ops.num

\* C12: a dispatch failure does not end the batch: once _send_reply has
\* failed for a message, check_emails is at its next statement for that
\* message or beyond it (the run was not ended by the failure), and when
\* the loop has moved on it is at a later message of the same search result.
C12_DispatchFailureNotFatal ==
    "failed" \in ops.did =>
        /\ \/ pc = "record"
           \/ "record" \in ops.did
           \/ pc = "idle" /\ last_run = "killed"
        /\ pc = "fetch" => Num > ops.num

\* C12 witness: the dispatch for a message failed and the loop is at a
\* later message of the same run
C12_Witness ==
    /\ "failed" \in ops.did
    /\ pc = "fetch"
    /\ Num > ops.num

\* C13: a run in which the mailbox connection could not be established
\* (connect, login or select raised) does not report successful completion.
C13_ConnectFailureSurfaced ==
    (pc = "idle" /\ last_run = "connect error") =>
        report # "completed successfully"

\* C14: loading the ledger never fails: a process that has just been
\* constructed holds a ledger; it is empty when the file is absent, empty
\* when the file is corrupt or its read failed, and the content of the file
\* otherwise.
C14_LoadNeverFails ==
    (pc = "idle" /\ report = "none") =>
        /\ processed_ids # None
        /\ ledger_file.state \in {"absent", "corrupt"} => processed_ids = <<>>
        /\ processed_ids \in {<<>>, ledger_file.ids}

\* C14 witness: a process constructed over a corrupt file, its ledger empty
C14_Witness ==
    /\ pc = "idle" /\ report = "none"
    /\ ledger_file.state = "corrupt"
    /\ "read" \in faults
    /\ processed_ids = <<>>

\* C15: a failed write of the ledger file does not end the batch: the
\* identifier is in the ledger in memory for as long as the process lives,
\* check_emails goes on to mail.store for the message (which flags it \Seen
\* when it succeeds), and the loop then moves to a later message of the same
\* search result.
C15_WriteFailureNotFatal ==
    "write failed" \in ops.did =>
        /\ ~(pc = "idle" /\ report = "none")
              => MessageIdOf(ops.num) \in Range(processed_ids)
        /\ \/ pc = "store"
           \/ ops.did \cap {"seen", "store no", "store raised"} # {}
           \/ pc = "idle" /\ last_run = "killed"
        /\ "seen" \in ops.did => ops.num \in seen
        /\ pc = "fetch" => Num > ops.num

\* C15 witness: the write failed, the message is recorded in memory and
\* flagged, and the loop is at a later message
C15_Witness ==
    /\ {"write failed", "seen"} \subseteq ops.did
    /\ MessageIdOf(ops.num) \in Range(processed_ids)
    /\ ops.num \in seen
    /\ pc = "fetch"
    /\ Num > ops.num

\* C16: extraction never raises: whatever the message, the step hands a
\* (possibly empty) field map back to check_emails.
C16_ExtractionNeverRaises == ~sample.raised

\* the lines of the sample body, as records of SampleLines
SampleLineSet == {SampleLines[sample.lines[i]] : i \in 1..Len(sample.lines)}

BobAddress == <<"b","o","b","@","s","i","t","e",".","c","o","m">>

\* C17: when the body of a relay message holds the prose line with the
\* address bob@site.com and no line labelled email, extraction puts that
\* address under the key email.
C17_RegexRescue ==
    (/\ sample # NoSample
     /\ sample.from = RelayFrom
     /\ \E line \in SampleLineSet : line.label = None /\ Contains(line.value, BobAddress)
     /\ \A line \in SampleLineSet : line.label # None => Lower(line.label) # K_email)
        => DictGet(sample.result.form_data, K_email) = BobAddress

\* C18: for a body made only of `Label: value` lines (no label twice),
\* extraction holds every value under its lower-cased label, and the reply
\* address is the value of the email line when there is one; so the body
\* Name: Jane Doe / Email: jane@example.com / Message: I need a quote gives
\* name, email, message and the reply address jane@example.com.
C18_ColonLines ==
    (/\ sample # NoSample
     /\ sample.from = RelayFrom
     /\ \A line \in SampleLineSet : line.label # None
     /\ \A i, j \in 1..Len(sample.lines) :
           Lower(SampleLines[sample.lines[i]].label)
              = Lower(SampleLines[sample.lines[j]].label) => i = j)
        => \A line \in SampleLineSet :
              /\ DictGet(sample.result.form_data, Lower(line.label)) = line.value
              /\ Lower(line.label) = K_email
                    => sample.result.sender_email = line.value

\* C19: a run that has connected to the mailbox has closed the connection
\* (close and logout) when check_emails returns, whichever way it returns.
C19_DisconnectedBeforeIdle ==
    (pc = "idle" /\ last_run \in {"returned", "error"}) => conn # "open"

\* the for loop is done with one message and about to fetch the next
BetweenMessages == pc = "fetch" /\ idx > 1

\* C20: whenever check_emails is between two messages and no write of the
\* ledger file has failed, the file holds exactly the identifiers of the
\* ledger in memory.
C20_LedgerPersisted ==
    (BetweenMessages /\ "write" \notin faults) =>
        Range(ledger_file.ids) = Range(processed_ids)

\* C20 as amended: whenever check_emails is between two messages and neither
\* a read nor a write of the ledger file has failed, the file holds exactly
\* the ledger in memory, the whole list in its order.
C20_LedgerPersistedLoaded ==
    (BetweenMessages /\ faults \cap {"read", "write"} = {}) =>
        /\ ledger_file.ids = processed_ids
        /\ processed_ids # <<>> => ledger_file.state = "ok"

\* C20 witness: between two messages, after a second identifier was recorded
C20_Witness ==
    /\ BetweenMessages
    /\ "record" \in ops.did
    /\ faults \cap {"read", "write"} = {}
    /\ Len(processed_ids) >= 2
    /\ ledger_file = GoodFile(processed_ids)

\* what check_emails did for a message it is done with: nothing (the fetch
\* was refused), a skip of a known identifier, an extraction without sender,
\* or the mark-read step
Finished(did) ==
    \/ did = {}
    \/ "skipped" \in did
    \/ did = {"fetched", "extract"}
    \/ did \cap {"seen", "store no"} # {}

\* C21: within a run the messages are handled in the order of the search
\* result and one at a time: the message in work is the one at the loop
\* position, its steps come in their order, and when the loop is about to
\* fetch a message (or to close) the message handled last is the one just
\* before it in the search result and check_emails is done with it.
C21_InOrderOneAtATime ==
    pc \notin {"idle", "search"} =>
        /\ idx \in 1..Len(message_nums)
        /\ pc = "fetch" =>
              IF idx = 1 THEN ops = NoOps
              ELSE ops.num = message_nums[idx - 1] /\ Finished(ops.did)
        /\ pc = "close" =>
              /\ idx = Len(message_nums)
              /\ ops.num = message_nums[idx]
              /\ Finished(ops.did)
        /\ pc \in {"extract", "generate", "send", "record", "store"} =>
              ops.num = message_nums[idx]
        /\ pc = "extract" => ops.did \subseteq {"fetched", "known"}
        /\ pc = "generate" => "extract" \in ops.did /\ "dispatch" \notin ops.did
        /\ pc = "send" => "generate" \in ops.did /\ "dispatch" \notin ops.did
        /\ pc = "record" => "dispatch" \in ops.did /\ "record" \notin ops.did
        /\ pc = "store" => "record" \in ops.did /\ "seen" \notin ops.did

\* C21 witness: the third message of the search result is about to be
\* fetched, the second one having gone through all its steps
C21_Witness ==
    /\ pc = "fetch" /\ idx = 3
    /\ ops.num = message_nums[2]
    /\ {"extract", "generate", "dispatch", "record", "seen"} \subseteq ops.did

\* C22: extraction merges earlier-wins: when two lines of a body carry the
\* same label with different values, the key never ends up with the value
\* of the later line.
C22_EarlierWins ==
    (sample # NoSample /\ ~sample.raised) =>
        \A i, j \in 1..Len(sample.lines) :
            LET earlier == SampleLines[sample.lines[i]]
                later   == SampleLines[sample.lines[j]]
            IN  (/\ i < j
                 /\ earlier.label # None
                 /\ earlier.label = later.label
                 /\ earlier.value # later.value)
                   => DictGet(sample.result.form_data, Lower(earlier.label))
                         # later.value

\* C23: whenever the extracted field map is not empty and holds neither a
\* message nor a content field, the text handed to the response generator is
\* a non-empty summary (not the empty string, not a missing value).
C23_SummaryNeverEmpty ==
    (/\ pc = "generate"
     /\ info.form_data # <<>>
     /\ ~DictHas(info.form_data, K_message)
     /\ ~DictHas(info.form_data, K_content))
        => Truthy(info.message_content)

\* C24: in every state of a check_emails run, every message flagged \Seen
\* has its identifier in the ledger in memory.
C24_SeenImpliesRecorded ==
    pc # "idle" =>
        \A num \in seen : MessageIdOf(num) \in Range(processed_ids)

\* C24 as amended: in every state of a run, every message the run itself
\* has flagged \Seen (a message of its search result, which held unseen
\* messages only) has its identifier in the ledger in memory, and so has
\* every flagged message as long as no read or write of the ledger file has
\* failed.
C24_SeenImpliesRecordedInRun ==
    pc # "idle" =>
        /\ \A i \in 1..Len(message_nums) :
              message_nums[i] \in seen
                 => MessageIdOf(message_nums[i]) \in Range(processed_ids)
        /\ faults \cap {"read", "write"} = {} =>
              \A num \in seen : MessageIdOf(num) \in Range(processed_ids)

\* C24 witness: the run has flagged the message it handled last
C24_Witness ==
    /\ BetweenMessages
    /\ message_nums[idx - 1] \in seen
    /\ "seen" \in ops.did
    /\ MessageIdOf(message_nums[idx - 1]) \in Range(processed_ids)

NoMessageId(num) == Mailbox[num].message_id = None

SkipStep ==
    /\ pc \in {"fetch", "extract"}
    /\ pc' \in {"fetch", "close"}

\* C26: a step that skips a message leaves the ledger in memory, the ledger
\* file and the \Seen flags as they are; and a message met with its
\* identifier already in the ledger is skipped, stays unread and is
\* returned by the next search again.
C26_SkipChangesNothing ==
    /\ [][SkipStep => UNCHANGED <<processed_ids, ledger_file, seen>>]_vars
    /\ []("known" \in ops.did =>
             /\ "skipped" \in ops.did
             /\ ops.num \notin seen
             /\ ops.num \in Range(SearchResult(seen)))

\* C26 witness: a recorded message that was left unread is fetched and
\* skipped once more by a later run, and is unread still
C26_Witness ==
    /\ runs >= 1
    /\ pc \in {"fetch", "close"}
    /\ ops.did = {"fetched", "known", "skipped"}
    /\ ops.num \notin seen
    /\ sent[MessageIdOf(ops.num)] >= 1
    /\ MessageIdOf(ops.num) \in Range(processed_ids)

=============================================================================
